---- MODULE Spec2Model ----
(***************************************************************************)
(* CorsMiddleware (rest/cors.go) of go-json-rest as a state machine.       *)
(*                                                                         *)
(* One CorsMiddleware value mw is shared by every request.  A request is   *)
(* served by a goroutine that runs the closure returned by MiddlewareFunc; *)
(* the closure is modelled statement by statement, one action per block of *)
(* the source, with the goroutine's position in pc.  The only shared state *)
(* the closure writes is the pair of lazily built maps mw.allowedMethods   *)
(* and mw.allowedHeaders.                                                  *)
(*                                                                         *)
(* Strings that the code converts (method names, header names, the max-age *)
(* value) are sequences of Unicode code points, so that strings.ToUpper,   *)
(* http.CanonicalHeaderKey and string(int) are computed and not assumed.   *)
(* Strings that are only copied (origins, error bodies) are TLA+ strings.  *)
(***************************************************************************)
EXTENDS Integers, Sequences, FiniteSets, TLC

VARIABLES mw, pc, request, writer, idx, handled, validated, crashed, faulted

vars == <<mw, pc, request, writer, idx, handled, validated, crashed, faulted>>

(***************************************************************************)
(* Bounds of the model.                                                    *)
(***************************************************************************)
\* longest configured AllowedMethods list
MaxMethods == 2
\* longest configured AllowedHeaders list
MaxHeaders == 1
\* most header names in one Access-Control-Request-Headers
MaxReqHeaders == 2

(***************************************************************************)
(* Strings as sequences of code points.                                    *)
(***************************************************************************)
\* "GET"
StrGET == <<71, 69, 84>>
\* "get"
StrGetLower == <<103, 101, 116>>
\* "post"
StrPostLower == <<112, 111, 115, 116>>
\* "POST"
StrPOST == <<80, 79, 83, 84>>
\* "x-id"
StrXIdLower == <<120, 45, 105, 100>>
\* "X-ID"
StrXIdUpper == <<88, 45, 73, 68>>
\* "X-Id"
StrXIdCanon == <<88, 45, 73, 100>>
\* "ACCEPT"
StrAcceptUpper == <<65, 67, 67, 69, 80, 84>>
\* "accept"
StrAcceptLower == <<97, 99, 99, 101, 112, 116>>
\* "Accept"
StrAcceptCanon == <<65, 99, 99, 101, 112, 116>>
\* "" (also: the header is absent)
StrEmpty == <<>>

\* sequences over S of length at most n
SeqUpTo(S, n) == UNION {[1..k -> S] : k \in 0..n}

\* the set of elements of a sequence
Range(s) == {s[i] : i \in 1..Len(s)}

\* every ordering of a finite set, as sequences without repetition
Orderings(S) == {s \in [1..Cardinality(S) -> S] : Range(s) = S}

(***************************************************************************)
(* strings.ToUpper, on the ASCII range the model draws its names from.     *)
(***************************************************************************)
ToUpper(s) == [i \in 1..Len(s) |-> IF s[i] \in 97..122 THEN s[i] - 32 ELSE s[i]]

(***************************************************************************)
(* http.CanonicalHeaderKey: a name holding a byte that is no token byte is *)
(* returned as it is; otherwise the first letter and every letter after a  *)
(* hyphen are upper-cased and every other letter lower-cased.              *)
(***************************************************************************)
ValidHeaderFieldByte(c) ==
    \/ c \in 48..57
    \/ c \in 65..90
    \/ c \in 97..122
    \/ c \in {33, 35, 36, 37, 38, 39, 42, 43, 45, 46, 94, 95, 96, 124, 126}

CanonicalHeaderKey(s) ==
    IF \E i \in 1..Len(s) : ~ValidHeaderFieldByte(s[i])
    THEN s
    ELSE [i \in 1..Len(s) |->
            LET upper == (i = 1) \/ (s[i - 1] = 45)
            IN  IF upper /\ s[i] \in 97..122 THEN s[i] - 32
                ELSE IF ~upper /\ s[i] \in 65..90 THEN s[i] + 32
                ELSE s[i]]

(***************************************************************************)
(* Go's conversion string(n) of an integer n: the string holding the one   *)
(* code point n, or U+FFFD when n is no valid code point.                  *)
(***************************************************************************)
IntToString(n) ==
    IF n \in 0..1114111 /\ n \notin 55296..57343 THEN <<n>> ELSE <<65533>>

(***************************************************************************)
(* The base-10 decimal string of an integer (strconv.Itoa).                *)
(***************************************************************************)
RECURSIVE Digits(_)
Digits(n) == IF n < 10 THEN <<48 + n>> ELSE Append(Digits(n \div 10), 48 + (n % 10))

Itoa(n) == IF n < 0 THEN <<45>> \o Digits(-n) ELSE Digits(n)

(***************************************************************************)
(* The policies and the requests the model draws from.                     *)
(***************************************************************************)
Goroutines == {"g1", "g2"}

OriginA == "http://a.com"
OriginB == "http://b.org"
Origins == {OriginA, OriginB}

\* mw.OriginValidator: nil (never set), or a predicate on the origin
NilValidator == [isNil |-> TRUE, accepts |-> {}]
Validators == {NilValidator} \cup {[isNil |-> FALSE, accepts |-> S] : S \in {{OriginA}, Origins}}

ConfiguredMethodNames == {StrGET, StrPostLower}
ConfiguredHeaderNames == {StrXIdLower, StrAcceptUpper}
MaxAges == {0, 3600}

\* a Go map[string]bool that is nil or holds the keys mapped to true
NilMap == [isNil |-> TRUE, keys |-> {}]
EmptyMap == [isNil |-> FALSE, keys |-> {}]

\* the value of m[k] for a map whose entries are all true (nil map: false)
Lookup(m, k) == k \in m.keys

\* m[k] = true
Insert(m, k) == [isNil |-> FALSE, keys |-> m.keys \cup {k}]

Policies ==
    [allowedMethods : {NilMap},
     allowedHeaders : {NilMap},
     RejectNonCorsRequests : BOOLEAN,
     OriginValidator : Validators,
     AllowedMethods : SeqUpTo(ConfiguredMethodNames, MaxMethods),
     AllowedHeaders : SeqUpTo(ConfiguredHeaderNames, MaxHeaders),
     AccessControlAllowCredentials : BOOLEAN,
     AccessControlMaxAge : MaxAges]

RequestedMethodNames == {StrGetLower, StrPOST}
RequestedHeaderNames == {StrXIdUpper, StrAcceptLower}

\* An HTTP request: its method, and the three headers GetCorsInfo reads.
\* Origin "" and RequestMethod <<>> stand for an absent header.
Requests ==
    {r \in [Method : {"GET", "OPTIONS"},
            Origin : {""} \cup Origins,
            RequestMethod : {StrEmpty} \cup RequestedMethodNames,
            RequestHeaders : SeqUpTo(RequestedHeaderNames, MaxReqHeaders)] :
        /\ r.Method = "GET" => r.RequestMethod = StrEmpty
        /\ (r.Origin = "" \/ r.RequestMethod = StrEmpty) => r.RequestHeaders = <<>>}

NoRequest == [Method |-> "", Origin |-> "", RequestMethod |-> StrEmpty,
              RequestHeaders |-> <<>>]

(***************************************************************************)
(* Request.GetCorsInfo.  Its source is not part of rest/cors.go; it is     *)
(* modelled from the specification's data model and classification rule,   *)
(* and from the field comments of CorsMiddleware (the method is compared   *)
(* in upper case, the header names normalized).                            *)
(***************************************************************************)
GetCorsInfo(r) ==
    LET isCors == r.Origin # ""
    IN  [IsCors |-> isCors,
         IsPreflight |-> isCors /\ r.Method = "OPTIONS" /\ r.RequestMethod # StrEmpty,
         Origin |-> r.Origin,
         AccessControlRequestMethod |-> ToUpper(r.RequestMethod),
         AccessControlRequestHeaders |->
            [i \in 1..Len(r.RequestHeaders) |-> CanonicalHeaderKey(r.RequestHeaders[i])]]

(***************************************************************************)
(* The ResponseWriter: the status and body the middleware wrote (status 0: *)
(* none written) and the Access-Control-* response headers, each a list of *)
(* values as in http.Header.                                               *)
(***************************************************************************)
NoHeader ==
    [AllowMethods |-> <<>>, AllowHeaders |-> <<>>, AllowOrigin |-> <<>>,
     AllowCredentials |-> <<>>, MaxAge |-> <<>>, ExposeHeaders |-> <<>>]

NewWriter == [status |-> 0, body |-> "", header |-> NoHeader]

\* http.Header.Set
HeaderSet(w, key, value) == [w EXCEPT !.header[key] = <<value>>]

\* http.Header.Add of each value of a list, in the list's order
HeaderAddAll(w, key, values) == [w EXCEPT !.header[key] = @ \o values]

\* ResponseWriter.WriteHeader
WriteHeader(w, code) == [w EXCEPT !.status = code]

\* rest.Error: the status and the reason
Error(w, message, code) == [w EXCEPT !.status = code, !.body = message]

StatusOK == 200
StatusForbidden == 403

(***************************************************************************)
(* State after construction: a policy as the application filled it in, the *)
(* derived maps nil, no request in flight.                                 *)
(***************************************************************************)
Idle ==
    /\ pc = [g \in Goroutines |-> "idle"]
    /\ request = [g \in Goroutines |-> NoRequest]
    /\ writer = [g \in Goroutines |-> NewWriter]
    /\ idx = [g \in Goroutines |-> 0]
    /\ handled = [g \in Goroutines |-> <<>>]
    /\ validated = [g \in Goroutines |-> <<>>]
    /\ crashed = FALSE
    \* no call of a nil OriginValidator has panicked yet
    /\ faulted = FALSE

Init ==
    /\ mw \in Policies
    /\ Idle

Terminal == {"idle", "done", "panicked"}

\* the goroutine ends its request with the response w
Finish(g, w) ==
    /\ writer' = [writer EXCEPT ![g] = w]
    /\ pc' = [pc EXCEPT ![g] = "done"]

\* the goroutine moves on to the statement at label l
Goto(g, l) == pc' = [pc EXCEPT ![g] = l]

\* the wrapped handler is invoked: the request it gets, the headers it finds
CallHandler(g, w) ==
    handled' = [handled EXCEPT ![g] = Append(@, [request |-> request[g], header |-> w.header])]

(***************************************************************************)
(* cors.go:41-43  the closure is entered with a fresh ResponseWriter.      *)
(***************************************************************************)
Receive(g, r) ==
    /\ ~crashed
    /\ pc[g] \in Terminal
    /\ request' = [request EXCEPT ![g] = r]
    /\ writer' = [writer EXCEPT ![g] = NewWriter]
    /\ handled' = [handled EXCEPT ![g] = <<>>]
    /\ validated' = [validated EXCEPT ![g] = <<>>]
    /\ idx' = [idx EXCEPT ![g] = 0]
    /\ Goto(g, "L46")
    /\ UNCHANGED <<mw, crashed, faulted>>

(***************************************************************************)
(* cors.go:46-54  non CORS requests.                                       *)
(***************************************************************************)
\* the bug of a missing return at line 49: the rejection falls through to
\* the wrapped handler
NonCorsFallsThrough(g) ==
    /\ ~crashed
    /\ pc[g] = "L46"
    /\ LET corsInfo == GetCorsInfo(request[g])
           w == IF mw.RejectNonCorsRequests
                THEN Error(writer[g], "Non CORS request", StatusForbidden)
                ELSE writer[g]
       IN  IF ~corsInfo.IsCors
           THEN /\ CallHandler(g, w)
                /\ Finish(g, w)
           ELSE /\ Goto(g, "L57")
                /\ UNCHANGED <<writer, handled>>
    /\ UNCHANGED <<mw, request, idx, validated, crashed, faulted>>

NonCors(g) ==
    /\ ~crashed
    /\ pc[g] = "L46"
    /\ LET corsInfo == GetCorsInfo(request[g])
       IN  IF ~corsInfo.IsCors
           THEN IF mw.RejectNonCorsRequests
                THEN /\ Finish(g, Error(writer[g], "Non CORS request", StatusForbidden))
                     /\ UNCHANGED handled
                ELSE /\ CallHandler(g, writer[g])
                     /\ Finish(g, writer[g])
           ELSE /\ Goto(g, "L57")
                /\ UNCHANGED <<writer, handled>>
    /\ UNCHANGED <<mw, request, idx, validated, crashed, faulted>>

(***************************************************************************)
(* cors.go:57-62  validate the Origin, then branch on IsPreflight.         *)
(* Calling a nil OriginValidator panics.                                   *)
(***************************************************************************)
\* the bug of a validator whose verdict is not acted on
ValidateOriginIgnored(g) ==
    /\ ~crashed
    /\ pc[g] = "L57"
    /\ LET corsInfo == GetCorsInfo(request[g])
       IN  IF mw.OriginValidator.isNil
           THEN /\ Goto(g, "panicked")
                /\ faulted' = TRUE
                /\ UNCHANGED <<writer, validated>>
           ELSE /\ validated' = [validated EXCEPT ![g] = Append(@, corsInfo.Origin)]
                /\ UNCHANGED faulted
                /\ Goto(g, IF corsInfo.IsPreflight THEN "L65" ELSE "L106")
                /\ UNCHANGED writer
    /\ UNCHANGED <<mw, request, idx, handled, crashed>>

ValidateOrigin(g) ==
    /\ ~crashed
    /\ pc[g] = "L57"
    /\ LET corsInfo == GetCorsInfo(request[g])
       IN  IF mw.OriginValidator.isNil
           THEN /\ Goto(g, "panicked")
                /\ faulted' = TRUE
                /\ UNCHANGED <<writer, validated>>
           ELSE /\ validated' = [validated EXCEPT ![g] = Append(@, corsInfo.Origin)]
                /\ UNCHANGED faulted
                /\ IF corsInfo.Origin \notin mw.OriginValidator.accepts
                   THEN Finish(g, Error(writer[g], "Invalid Origin", StatusForbidden))
                   ELSE /\ Goto(g, IF corsInfo.IsPreflight THEN "L65" ELSE "L106")
                        /\ UNCHANGED writer
    /\ UNCHANGED <<mw, request, idx, handled, crashed>>

(***************************************************************************)
(* cors.go:65-71  build mw.allowedMethods on first use.                    *)
(***************************************************************************)
\* the bug of a misplaced brace: the method check of lines 72-75 sits inside
\* the block that builds the map, and is skipped once the map exists
MethodsNilCheckSkipsCheck(g) ==
    /\ ~crashed
    /\ pc[g] = "L65"
    /\ Goto(g, IF mw.allowedMethods.isNil THEN "L66" ELSE "L78")
    /\ UNCHANGED <<mw, request, writer, idx, handled, validated, crashed, faulted>>

\* the bug of a cache refreshed per request: the map is rebuilt whether or
\* not it exists
MethodsNilCheckAlwaysRebuilds(g) ==
    /\ ~crashed
    /\ pc[g] = "L65"
    /\ Goto(g, "L66")
    /\ UNCHANGED <<mw, request, writer, idx, handled, validated, crashed, faulted>>

MethodsNilCheck(g) ==
    /\ ~crashed
    /\ pc[g] = "L65"
    /\ Goto(g, IF mw.allowedMethods.isNil THEN "L66" ELSE "L72")
    /\ UNCHANGED <<mw, request, writer, idx, handled, validated, crashed, faulted>>

MethodsMake(g) ==
    /\ ~crashed
    /\ pc[g] = "L66"
    /\ mw' = [mw EXCEPT !.allowedMethods = EmptyMap]
    /\ idx' = [idx EXCEPT ![g] = 1]
    /\ Goto(g, "L67")
    /\ UNCHANGED <<request, writer, handled, validated, crashed, faulted>>

\* the bug of storing the configured method as written
MethodKeyNoUpper(allowedMethod) == allowedMethod

\* the key line 68 stores for a configured method
MethodKey(allowedMethod) == ToUpper(allowedMethod)

MethodsFill(g) ==
    /\ ~crashed
    /\ pc[g] = "L67"
    /\ IF idx[g] <= Len(mw.AllowedMethods)
       THEN /\ mw' = [mw EXCEPT !.allowedMethods =
                        Insert(@, MethodKey(mw.AllowedMethods[idx[g]]))]
            /\ idx' = [idx EXCEPT ![g] = @ + 1]
            /\ UNCHANGED pc
       ELSE /\ Goto(g, "L72")
            /\ UNCHANGED <<mw, idx>>
    /\ UNCHANGED <<request, writer, handled, validated, crashed, faulted>>

(***************************************************************************)
(* cors.go:72-75  check the requested method.                              *)
(***************************************************************************)
\* the bug of line 98 moved up: Access-Control-Allow-Origin is set as soon as
\* the method check has passed, before the header check
MethodCheckWritesEarly(g) ==
    /\ ~crashed
    /\ pc[g] = "L72"
    /\ IF ~Lookup(mw.allowedMethods, GetCorsInfo(request[g]).AccessControlRequestMethod)
       THEN Finish(g, Error(writer[g], "Invalid Preflight Request", StatusForbidden))
       ELSE /\ Goto(g, "L78")
            /\ writer' = [writer EXCEPT ![g] =
                            HeaderSet(@, "AllowOrigin", GetCorsInfo(request[g]).Origin)]
    /\ UNCHANGED <<mw, request, idx, handled, validated, crashed, faulted>>

MethodCheck(g) ==
    /\ ~crashed
    /\ pc[g] = "L72"
    /\ IF ~Lookup(mw.allowedMethods, GetCorsInfo(request[g]).AccessControlRequestMethod)
       THEN Finish(g, Error(writer[g], "Invalid Preflight Request", StatusForbidden))
       ELSE /\ Goto(g, "L78")
            /\ UNCHANGED writer
    /\ UNCHANGED <<mw, request, idx, handled, validated, crashed, faulted>>

(***************************************************************************)
(* cors.go:78-84  build mw.allowedHeaders on first use.                    *)
(***************************************************************************)
HeadersNilCheck(g) ==
    /\ ~crashed
    /\ pc[g] = "L78"
    /\ IF mw.allowedHeaders.isNil
       THEN /\ Goto(g, "L79")
            /\ UNCHANGED idx
       ELSE /\ Goto(g, "L85")
            /\ idx' = [idx EXCEPT ![g] = 1]
    /\ UNCHANGED <<mw, request, writer, handled, validated, crashed, faulted>>

HeadersMake(g) ==
    /\ ~crashed
    /\ pc[g] = "L79"
    /\ mw' = [mw EXCEPT !.allowedHeaders = EmptyMap]
    /\ idx' = [idx EXCEPT ![g] = 1]
    /\ Goto(g, "L80")
    /\ UNCHANGED <<request, writer, handled, validated, crashed, faulted>>

\* the key line 81 stores for a configured header
HeaderKey(allowedHeader) == CanonicalHeaderKey(allowedHeader)

HeadersFill(g) ==
    /\ ~crashed
    /\ pc[g] = "L80"
    /\ IF idx[g] <= Len(mw.AllowedHeaders)
       THEN /\ mw' = [mw EXCEPT !.allowedHeaders =
                        Insert(@, HeaderKey(mw.AllowedHeaders[idx[g]]))]
            /\ idx' = [idx EXCEPT ![g] = @ + 1]
            /\ UNCHANGED pc
       ELSE /\ Goto(g, "L85")
            /\ idx' = [idx EXCEPT ![g] = 1]
            /\ UNCHANGED mw
    /\ UNCHANGED <<request, writer, handled, validated, crashed, faulted>>

(***************************************************************************)
(* cors.go:85-90  check the requested headers, one per iteration.          *)
(***************************************************************************)
HeaderCheck(g) ==
    /\ ~crashed
    /\ pc[g] = "L85"
    /\ LET requestedHeaders == GetCorsInfo(request[g]).AccessControlRequestHeaders
       IN  IF idx[g] <= Len(requestedHeaders)
           THEN IF ~Lookup(mw.allowedHeaders, requestedHeaders[idx[g]])
                THEN /\ Finish(g, Error(writer[g], "Invalid Preflight Request", StatusForbidden))
                     /\ UNCHANGED idx
                ELSE /\ idx' = [idx EXCEPT ![g] = @ + 1]
                     /\ UNCHANGED <<pc, writer>>
           ELSE /\ Goto(g, "L92")
                /\ UNCHANGED <<writer, idx>>
    /\ UNCHANGED <<mw, request, handled, validated, crashed, faulted>>

(***************************************************************************)
(* cors.go:92-97  one Add per key of each map; Go ranges over a map in an  *)
(* unspecified order.                                                      *)
(***************************************************************************)
\* the bug of a loop that stops one key short
MethodsToWriteOneShort(m) ==
    IF m.keys = {} THEN {} ELSE m.keys \ {CHOOSE k \in m.keys : TRUE}

\* the keys lines 92-94 add to Access-Control-Allow-Methods
MethodsToWrite(m) == m.keys

WriteMethods(g) ==
    /\ ~crashed
    /\ pc[g] = "L92"
    /\ \E order \in Orderings(MethodsToWrite(mw.allowedMethods)) :
          writer' = [writer EXCEPT ![g] = HeaderAddAll(@, "AllowMethods", order)]
    /\ Goto(g, "L95")
    /\ UNCHANGED <<mw, request, idx, handled, validated, crashed, faulted>>

\* the keys lines 95-97 add to Access-Control-Allow-Headers
HeadersToWrite(m) == m.keys

WriteHeaders(g) ==
    /\ ~crashed
    /\ pc[g] = "L95"
    /\ \E order \in Orderings(HeadersToWrite(mw.allowedHeaders)) :
          writer' = [writer EXCEPT ![g] = HeaderAddAll(@, "AllowHeaders", order)]
    /\ Goto(g, "L98")
    /\ UNCHANGED <<mw, request, idx, handled, validated, crashed, faulted>>

(***************************************************************************)
(* cors.go:98-104  the rest of the preflight response.                     *)
(***************************************************************************)
\* the bug of answering with the wildcard
AllowOriginWildcard(corsInfo) == "*"

\* the value line 98 and line 107 give Access-Control-Allow-Origin
AllowOriginValue(corsInfo) == corsInfo.Origin

\* the bug of setting the header whatever the flag
SetCredentialsAlways(w) == HeaderSet(w, "AllowCredentials", "true")

\* lines 99-101 and 108-110
SetCredentials(w) ==
    IF mw.AccessControlAllowCredentials = TRUE
    THEN HeaderSet(w, "AllowCredentials", "true")
    ELSE w

\* the value line 102 gives Access-Control-Max-Age
MaxAgeValue(maxAge) == IntToString(maxAge)

\* the bug of a preflight answer that also runs the wrapped handler
PreflightRespondAndDelegate(g) ==
    /\ ~crashed
    /\ pc[g] = "L98"
    /\ LET corsInfo == GetCorsInfo(request[g])
           w1 == HeaderSet(writer[g], "AllowOrigin", AllowOriginValue(corsInfo))
           w2 == SetCredentials(w1)
           w3 == HeaderSet(w2, "MaxAge", MaxAgeValue(mw.AccessControlMaxAge))
       IN  /\ CallHandler(g, w3)
           /\ Finish(g, WriteHeader(w3, StatusOK))
    /\ UNCHANGED <<mw, request, idx, validated, crashed, faulted>>

PreflightRespond(g) ==
    /\ ~crashed
    /\ pc[g] = "L98"
    /\ LET corsInfo == GetCorsInfo(request[g])
           w1 == HeaderSet(writer[g], "AllowOrigin", AllowOriginValue(corsInfo))
           w2 == SetCredentials(w1)
           w3 == HeaderSet(w2, "MaxAge", MaxAgeValue(mw.AccessControlMaxAge))
       IN  Finish(g, WriteHeader(w3, StatusOK))
    /\ UNCHANGED <<mw, request, idx, handled, validated, crashed, faulted>>

(***************************************************************************)
(* cors.go:105-114  a CORS request that is no preflight.                   *)
(***************************************************************************)
\* the bug of the handler called first and the headers set on its return
SimpleHandlerFirst(g) ==
    /\ ~crashed
    /\ pc[g] = "L106"
    /\ LET corsInfo == GetCorsInfo(request[g])
           w1 == HeaderSet(writer[g], "ExposeHeaders", "X-Powered-By")
           w2 == HeaderSet(w1, "AllowOrigin", AllowOriginValue(corsInfo))
           w3 == SetCredentials(w2)
       IN  /\ CallHandler(g, writer[g])
           /\ Finish(g, w3)
    /\ UNCHANGED <<mw, request, idx, validated, crashed, faulted>>

Simple(g) ==
    /\ ~crashed
    /\ pc[g] = "L106"
    /\ LET corsInfo == GetCorsInfo(request[g])
           w1 == HeaderSet(writer[g], "ExposeHeaders", "X-Powered-By")
           w2 == HeaderSet(w1, "AllowOrigin", AllowOriginValue(corsInfo))
           w3 == SetCredentials(w2)
       IN  /\ CallHandler(g, w3)
           /\ Finish(g, w3)
    /\ UNCHANGED <<mw, request, idx, validated, crashed, faulted>>

\* one statement of the closure, run by goroutine g
Step(g) ==
    \/ NonCors(g)
    \/ ValidateOrigin(g)
    \/ MethodsNilCheck(g)
    \/ MethodsMake(g)
    \/ MethodsFill(g)
    \/ MethodCheck(g)
    \/ HeadersNilCheck(g)
    \/ HeadersMake(g)
    \/ HeadersFill(g)
    \/ HeaderCheck(g)
    \/ WriteMethods(g)
    \/ WriteHeaders(g)
    \/ PreflightRespond(g)
    \/ Simple(g)

(***************************************************************************)
(* Spec: requests are served one at a time, each to its end, by one        *)
(* goroutine.                                                              *)
(***************************************************************************)
Main == "g1"

Next ==
    \/ \E r \in Requests : Receive(Main, r)
    \/ Step(Main)

Spec == Init /\ [][Next]_vars

(***************************************************************************)
(* SpecPair: requests are still served one at a time, but by either of two *)
(* goroutines, so that the response to an earlier request stays in view    *)
(* while later requests are served.                                        *)
(***************************************************************************)
PairPolicies ==
    {p \in Policies :
        /\ ~p.RejectNonCorsRequests
        /\ p.OriginValidator = [isNil |-> FALSE, accepts |-> {OriginA}]
        /\ p.AccessControlAllowCredentials
        /\ p.AccessControlMaxAge = 3600}

Req(method, origin, requestMethod, requestHeaders) ==
    [Method |-> method, Origin |-> origin, RequestMethod |-> requestMethod,
     RequestHeaders |-> requestHeaders]

PairRequests ==
    {Req("GET", "", StrEmpty, <<>>),
     Req("GET", OriginA, StrEmpty, <<>>),
     Req("GET", OriginB, StrEmpty, <<>>),
     Req("OPTIONS", OriginA, StrGetLower, <<>>),
     Req("OPTIONS", OriginA, StrPOST, <<StrXIdUpper>>),
     Req("OPTIONS", OriginA, StrGetLower, <<StrXIdUpper, StrAcceptLower>>),
     Req("OPTIONS", OriginB, StrGetLower, <<>>)}

InitPair ==
    /\ mw \in PairPolicies
    /\ Idle

\* a request is taken only when no other request is in flight
ReceiveAlone(g, r) ==
    /\ \A h \in Goroutines \ {g} : pc[h] \in Terminal
    /\ Receive(g, r)

NextPair ==
    \E g \in Goroutines :
        \/ \E r \in PairRequests : ReceiveAlone(g, r)
        \/ Step(g)

SpecPair == InitPair /\ [][NextPair]_vars

(***************************************************************************)
(* SpecConc: two goroutines serve requests concurrently against one mw, as *)
(* net/http runs one goroutine per connection.  cors.go takes no lock and  *)
(* uses no sync.Once, so the statements of the two closures interleave     *)
(* freely.  The Go runtime may also detect a map write that is concurrent  *)
(* with another access of the same map and end the process.                *)
(***************************************************************************)
ConcPolicies ==
    {p \in Policies :
        /\ p.OriginValidator = [isNil |-> FALSE, accepts |-> {OriginA}]
        /\ p.AllowedMethods = <<StrGET, StrPostLower>>
        /\ p.AllowedHeaders = <<StrXIdLower>>
        /\ p.AccessControlAllowCredentials
        /\ p.AccessControlMaxAge = 3600}

ConcRequests ==
    {Req("GET", "", StrEmpty, <<>>),
     Req("GET", OriginA, StrEmpty, <<>>),
     Req("OPTIONS", OriginA, StrGetLower, <<>>),
     Req("OPTIONS", OriginA, StrPOST, <<StrXIdUpper>>),
     Req("OPTIONS", OriginB, StrGetLower, <<>>)}

InitConc ==
    /\ mw \in ConcPolicies
    /\ Idle

\* g is about to write the map (lines 68, 81)
WritesMethods(g) == pc[g] = "L67" /\ idx[g] <= Len(mw.AllowedMethods)
WritesHeaders(g) == pc[g] = "L80" /\ idx[g] <= Len(mw.AllowedHeaders)

\* g is about to read the map (lines 72 and 92, 86 and 95)
ReadsMethods(g) == pc[g] \in {"L72", "L92"}
ReadsHeaders(g) ==
    \/ pc[g] = "L95"
    \/ pc[g] = "L85" /\ idx[g] <= Len(request[g].RequestHeaders)

\* fatal error: concurrent map writes / concurrent map read and map write
MapFault(g) ==
    /\ ~crashed
    /\ \E h \in Goroutines \ {g} :
          \/ WritesMethods(g) /\ (WritesMethods(h) \/ ReadsMethods(h))
          \/ WritesHeaders(g) /\ (WritesHeaders(h) \/ ReadsHeaders(h))
    /\ crashed' = TRUE
    /\ UNCHANGED <<mw, pc, request, writer, idx, handled, validated, faulted>>

NextConc ==
    \E g \in Goroutines :
        \/ \E r \in ConcRequests : Receive(g, r)
        \/ Step(g)
        \/ MapFault(g)

SpecConc == InitConc /\ [][NextConc]_vars

(***************************************************************************)
(* What the claims speak of, computed from the configured policy and the   *)
(* raw request, not from the derived maps.                                 *)
(***************************************************************************)
\* the configured AllowedMethods, upper-cased
ConfiguredMethodSet == {ToUpper(mw.AllowedMethods[i]) : i \in 1..Len(mw.AllowedMethods)}

\* the configured AllowedHeaders, in canonical case
ConfiguredHeaderSet ==
    {CanonicalHeaderKey(mw.AllowedHeaders[i]) : i \in 1..Len(mw.AllowedHeaders)}

\* g has answered its request
Done(g) == pc[g] = "done"

\* g's request carries an Origin header
IsCorsRequest(g) == request[g].Origin # ""

\* g's request is a preflight
IsPreflightRequest(g) ==
    /\ IsCorsRequest(g)
    /\ request[g].Method = "OPTIONS"
    /\ request[g].RequestMethod # StrEmpty

\* the validator is set and accepts the origin of g's request
OriginAccepted(g) ==
    /\ ~mw.OriginValidator.isNil
    /\ request[g].Origin \in mw.OriginValidator.accepts

\* the validator is set and refuses the origin of g's request
OriginRefused(g) ==
    /\ ~mw.OriginValidator.isNil
    /\ request[g].Origin \notin mw.OriginValidator.accepts

\* the requested method is configured as allowed
MethodAllowed(g) == ToUpper(request[g].RequestMethod) \in ConfiguredMethodSet

\* every requested header is configured as allowed
HeadersAllowed(g) ==
    \A i \in 1..Len(request[g].RequestHeaders) :
        CanonicalHeaderKey(request[g].RequestHeaders[i]) \in ConfiguredHeaderSet

\* a preflight that passes origin validation and both checks
PassingPreflight(g) ==
    /\ IsPreflightRequest(g)
    /\ OriginAccepted(g)
    /\ MethodAllowed(g)
    /\ HeadersAllowed(g)

\* an accepted CORS request: a passing preflight, or a simple request with
\* an accepted origin
AcceptedCors(g) ==
    /\ IsCorsRequest(g)
    /\ OriginAccepted(g)
    /\ IsPreflightRequest(g) => (MethodAllowed(g) /\ HeadersAllowed(g))

\* the values of a response header, as a set
Values(g, key) == Range(writer[g].header[key])

\* C1: a request without Origin is answered 403 "Non CORS request" without
\* the handler when RejectNonCorsRequests is set, and otherwise handed once
\* to the handler as it came; either way no Access-Control-* header is set
\* and the origin validator is not called.
C1_NonCorsPassesOrIsRejected ==
    \A g \in Goroutines :
        (Done(g) /\ ~IsCorsRequest(g)) =>
            /\ IF mw.RejectNonCorsRequests
               THEN /\ writer[g].status = StatusForbidden
                    /\ writer[g].body = "Non CORS request"
                    /\ handled[g] = <<>>
               ELSE /\ writer[g].status = 0
                    /\ handled[g] = <<[request |-> request[g], header |-> NoHeader]>>
            /\ writer[g].header = NoHeader
            /\ validated[g] = <<>>

\* a non-CORS request passed to the handler after an earlier preflight had
\* built both derived maps
C1_Witness ==
    /\ Done(Main)
    /\ ~IsCorsRequest(Main)
    /\ ~mw.RejectNonCorsRequests
    /\ Len(handled[Main]) = 1
    /\ ~mw.allowedHeaders.isNil

\* C2: a preflight that passes origin validation and the method and header
\* checks is answered 200 with Access-Control-Allow-Methods holding exactly
\* the configured methods upper-cased and Access-Control-Allow-Headers
\* exactly the configured headers in canonical case, one value each.
C2_PreflightListsConfiguredSets ==
    \A g \in Goroutines :
        (Done(g) /\ PassingPreflight(g)) =>
            /\ writer[g].status = StatusOK
            /\ Values(g, "AllowMethods") = ConfiguredMethodSet
            /\ Len(writer[g].header.AllowMethods) = Cardinality(ConfiguredMethodSet)
            /\ Values(g, "AllowHeaders") = ConfiguredHeaderSet
            /\ Len(writer[g].header.AllowHeaders) = Cardinality(ConfiguredHeaderSet)

\* a passing preflight against a policy configured in lower case with two
\* methods, answered with both
C2_Witness ==
    /\ Done(Main)
    /\ PassingPreflight(Main)
    /\ mw.AllowedMethods = <<StrPostLower, StrGET>>
    /\ mw.AllowedHeaders = <<StrXIdLower>>
    /\ request[Main].RequestHeaders = <<StrXIdUpper>>
    /\ writer[Main].header.AllowMethods = <<StrGET, StrPOST>>
    /\ writer[Main].header.AllowHeaders = <<StrXIdCanon>>

\* C3: an accepted CORS request gets Access-Control-Allow-Origin set to the
\* one value that is its own Origin, never "*" and never left out.
C3_AllowOriginEchoesOrigin ==
    \A g \in Goroutines :
        (Done(g) /\ AcceptedCors(g)) =>
            /\ writer[g].header.AllowOrigin = <<request[g].Origin>>
            /\ writer[g].header.AllowOrigin # <<"*">>
            /\ ~IsPreflightRequest(g) =>
                  /\ Len(handled[g]) = 1
                  /\ handled[g][1].header.AllowOrigin = <<request[g].Origin>>

\* a simple request from the second accepted origin, answered with it
C3_Witness ==
    /\ Done(Main)
    /\ AcceptedCors(Main)
    /\ ~IsPreflightRequest(Main)
    /\ request[Main].Origin = OriginB
    /\ writer[Main].header.AllowOrigin = <<OriginB>>

\* C4: the wrapped handler runs at most once per request, and it runs if and
\* only if the request is non-CORS with RejectNonCorsRequests false or a
\* CORS request that is no preflight and whose origin is accepted; never for
\* a preflight, never with a 403.
C4_HandlerInvokedExactlyWhenDelegated ==
    \A g \in Goroutines :
        /\ Len(handled[g]) <= 1
        /\ IsPreflightRequest(g) => handled[g] = <<>>
        /\ writer[g].status = StatusForbidden => handled[g] = <<>>
        /\ pc[g] \in {"done", "panicked"} =>
              (handled[g] # <<>> <=>
                  \/ ~IsCorsRequest(g) /\ ~mw.RejectNonCorsRequests
                  \/ IsCorsRequest(g) /\ ~IsPreflightRequest(g) /\ OriginAccepted(g))

\* a passing preflight answered 200 without the handler
C4_Witness ==
    /\ Done(Main)
    /\ PassingPreflight(Main)
    /\ writer[Main].status = StatusOK
    /\ handled[Main] = <<>>

\* C5: a CORS request whose origin the validator refuses is answered 403
\* "Invalid Origin" without the handler, also when it is a preflight whose
\* method or headers are not allowed; the validator is called exactly once
\* for a CORS request.
C5_InvalidOriginRejectedFirst ==
    \A g \in Goroutines :
        /\ (Done(g) /\ IsCorsRequest(g) /\ OriginRefused(g)) =>
              /\ writer[g].status = StatusForbidden
              /\ writer[g].body = "Invalid Origin"
              /\ handled[g] = <<>>
        /\ (Done(g) /\ IsCorsRequest(g)) => validated[g] = <<request[g].Origin>>
        /\ Len(validated[g]) <= 1

\* a preflight with a refused origin and a method that is not allowed
C5_Witness ==
    /\ Done(Main)
    /\ IsPreflightRequest(Main)
    /\ OriginRefused(Main)
    /\ ~MethodAllowed(Main)
    /\ ~HeadersAllowed(Main)
    /\ writer[Main].body = "Invalid Origin"

\* C6: a preflight with an accepted origin is answered 403 "Invalid
\* Preflight Request" if and only if its method, upper-cased, is not among
\* the configured methods upper-cased, or one of its headers, in canonical
\* case, is not among the configured headers in canonical case; otherwise
\* it is answered 200.
C6_PreflightRejectedIffNotAllowed ==
    \A g \in Goroutines :
        (Done(g) /\ IsPreflightRequest(g) /\ OriginAccepted(g)) =>
            /\ (writer[g].status = StatusForbidden /\ writer[g].body = "Invalid Preflight Request")
                  <=> ~(MethodAllowed(g) /\ HeadersAllowed(g))
            /\ writer[g].status = StatusOK <=> (MethodAllowed(g) /\ HeadersAllowed(g))
            /\ request[g].RequestHeaders = <<>> =>
                  (writer[g].status = StatusOK <=> MethodAllowed(g))

\* a preflight asking for "POST" where "post" is configured, refused for
\* its second header alone
C6_Witness ==
    /\ Done(Main)
    /\ IsPreflightRequest(Main)
    /\ OriginAccepted(Main)
    /\ mw.AllowedMethods = <<StrPostLower>>
    /\ request[Main].RequestMethod = StrPOST
    /\ mw.AllowedHeaders = <<StrAcceptUpper>>
    /\ request[Main].RequestHeaders = <<StrAcceptLower, StrXIdUpper>>
    /\ writer[Main].body = "Invalid Preflight Request"

\* the names of the Access-Control-* response headers
HeaderKeys == DOMAIN NoHeader

\* C7: with preflights served concurrently, no goroutine reads a derived map
\* that is only partly built, so a preflight whose method and headers are
\* configured as allowed is answered 200 with the full configured sets.
C7_LazyMaterializationRaceFree ==
    \A g \in Goroutines :
        /\ ReadsMethods(g) => mw.allowedMethods.keys = ConfiguredMethodSet
        /\ ReadsHeaders(g) => mw.allowedHeaders.keys = ConfiguredHeaderSet
        /\ (Done(g) /\ PassingPreflight(g)) =>
              /\ writer[g].status = StatusOK
              /\ Values(g, "AllowMethods") = ConfiguredMethodSet
              /\ Values(g, "AllowHeaders") = ConfiguredHeaderSet

\* C8: two identical preflights against one policy get the same status, the
\* same body and the same set of values for every Access-Control-* header,
\* whichever came first and whatever was served in between.
C8_IdenticalPreflightsSameAnswer ==
    \A g, h \in Goroutines :
        (Done(g) /\ Done(h) /\ request[g] = request[h] /\ IsPreflightRequest(g)) =>
            /\ writer[g].status = writer[h].status
            /\ writer[g].body = writer[h].body
            /\ \A key \in HeaderKeys : Values(g, key) = Values(h, key)

\* the same passing preflight answered twice, the two answers listing the
\* methods in different orders
C8_Witness ==
    /\ Done("g1")
    /\ Done("g2")
    /\ request["g1"] = request["g2"]
    /\ PassingPreflight("g1")
    /\ writer["g1"].status = StatusOK
    /\ writer["g1"].header.AllowMethods # writer["g2"].header.AllowMethods

\* C9: an accepted preflight carries Access-Control-Max-Age equal to the
\* base-10 decimal string of the configured AccessControlMaxAge.
C9_MaxAgeIsDecimalString ==
    \A g \in Goroutines :
        (Done(g) /\ PassingPreflight(g)) =>
            writer[g].header.MaxAge = <<Itoa(mw.AccessControlMaxAge)>>

\* C10: Access-Control-Allow-Credentials is "true" if and only if the flag
\* is set and the request is an accepted CORS request; it is never set with
\* the flag off, on a non-CORS request or on a 403.
C10_CredentialsIffFlagAndAccepted ==
    \A g \in Goroutines :
        /\ writer[g].header.AllowCredentials \in {<<>>, <<"true">>}
        /\ ~mw.AccessControlAllowCredentials => writer[g].header.AllowCredentials = <<>>
        /\ ~IsCorsRequest(g) => writer[g].header.AllowCredentials = <<>>
        /\ writer[g].status = StatusForbidden => writer[g].header.AllowCredentials = <<>>
        /\ Done(g) =>
              (writer[g].header.AllowCredentials = <<"true">>
                  <=> (mw.AccessControlAllowCredentials /\ AcceptedCors(g)))

\* a simple request with an accepted origin, handed to the handler with the
\* credentials header set
C10_Witness ==
    /\ Done(Main)
    /\ AcceptedCors(Main)
    /\ ~IsPreflightRequest(Main)
    /\ mw.AccessControlAllowCredentials
    /\ writer[Main].header.AllowCredentials = <<"true">>
    /\ Len(handled[Main]) = 1
    /\ handled[Main][1].header.AllowCredentials = <<"true">>

\* C11: with no OriginValidator configured, no request reaches the wrapped
\* handler and none gets an accepted CORS answer unless a fault has been
\* raised by then.
C11_MissingValidatorNeverPassesSilently ==
    \A g \in Goroutines :
        (mw.OriginValidator.isNil /\ ~faulted) =>
            /\ handled[g] = <<>>
            /\ writer[g].status # StatusOK
            /\ writer[g].header = NoHeader

\* the configured fields of a policy, without the derived maps
Configured(p) ==
    <<p.RejectNonCorsRequests, p.OriginValidator, p.AllowedMethods, p.AllowedHeaders,
      p.AccessControlAllowCredentials, p.AccessControlMaxAge>>

\* no request is in flight
Quiescent == \A g \in Goroutines : pc[g] \in Terminal

\* a derived map is complete: built, and holding exactly the given keys
Complete(m, keys) == ~m.isNil /\ m.keys = keys

\* between requests each derived map is nil or complete
DerivedNilOrComplete ==
    Quiescent =>
        /\ mw.allowedMethods.isNil \/ Complete(mw.allowedMethods, ConfiguredMethodSet)
        /\ mw.allowedHeaders.isNil \/ Complete(mw.allowedHeaders, ConfiguredHeaderSet)

\* one step: a complete map stays as it is, the configured fields stay as
\* they are, and a map is made only for a preflight with an accepted origin
DerivedBuiltOnce ==
    /\ Complete(mw.allowedMethods, ConfiguredMethodSet) => mw'.allowedMethods = mw.allowedMethods
    /\ Complete(mw.allowedHeaders, ConfiguredHeaderSet) => mw'.allowedHeaders = mw.allowedHeaders
    /\ Configured(mw') = Configured(mw)
    /\ ((mw.allowedMethods.isNil /\ ~mw'.allowedMethods.isNil)
           \/ (mw.allowedHeaders.isNil /\ ~mw'.allowedHeaders.isNil)) =>
          \E g \in Goroutines :
              /\ pc[g] \notin Terminal
              /\ IsPreflightRequest(g)
              /\ OriginAccepted(g)

\* C12: with requests served one at a time, each derived map is between
\* requests either nil or exactly the normalized configured list; once
\* complete it is never changed again, no request changes a configured
\* field, and only a preflight with an accepted origin makes a derived map.
C12_DerivedSetsBuiltOnceFromConfig == [](DerivedNilOrComplete) /\ [][DerivedBuiltOnce]_vars

\* a preflight refused for its method has built the two-method map and
\* left the header map nil
C12_Witness ==
    /\ Done(Main)
    /\ IsPreflightRequest(Main)
    /\ OriginAccepted(Main)
    /\ ~MethodAllowed(Main)
    /\ Complete(mw.allowedMethods, {StrGET})
    /\ mw.AllowedMethods = <<StrGET, StrGET>>
    /\ mw.allowedHeaders.isNil

\* the CORS headers the simple path is to set for g's request
SimpleHeaders(g) ==
    [NoHeader EXCEPT
        !.ExposeHeaders = <<"X-Powered-By">>,
        !.AllowOrigin = <<request[g].Origin>>,
        !.AllowCredentials = IF mw.AccessControlAllowCredentials THEN <<"true">> ELSE <<>>]

\* C13: on the simple CORS path with an accepted origin, the handler is
\* invoked with Access-Control-Expose-Headers, Access-Control-Allow-Origin
\* and, when enabled, Access-Control-Allow-Credentials already set, and the
\* middleware writes no status, body or header after it.
C13_SimpleHeadersSetBeforeHandler ==
    \A g \in Goroutines :
        (Done(g) /\ AcceptedCors(g) /\ ~IsPreflightRequest(g)) =>
            /\ Len(handled[g]) = 1
            /\ handled[g][1].header = SimpleHeaders(g)
            /\ writer[g].header = handled[g][1].header
            /\ writer[g].status = 0
            /\ writer[g].body = ""

\* a simple request with credentials enabled, served after an earlier
\* preflight built the derived maps
C13_Witness ==
    /\ Done(Main)
    /\ AcceptedCors(Main)
    /\ ~IsPreflightRequest(Main)
    /\ mw.AccessControlAllowCredentials
    /\ ~mw.allowedMethods.isNil
    /\ Len(handled[Main]) = 1
    /\ handled[Main][1].header.ExposeHeaders = <<"X-Powered-By">>

\* C14: a response answered 403 carries no Access-Control-* header, whichever
\* check refused it.
C14_ForbiddenCarriesNoCorsHeader ==
    \A g \in Goroutines :
        writer[g].status = StatusForbidden => writer[g].header = NoHeader

\* a preflight that passed the method check and was refused by the header
\* check
C14_Witness ==
    /\ Done(Main)
    /\ IsPreflightRequest(Main)
    /\ OriginAccepted(Main)
    /\ MethodAllowed(Main)
    /\ ~HeadersAllowed(Main)
    /\ writer[Main].status = StatusForbidden
    /\ writer[Main].header = NoHeader

====
